---- MODULE Spec2Model ----
(***************************************************************************)
(* toqst-typer: the typing-session state machine of src/lib.rs and         *)
(* src/main.rs.  The state is the App struct (user_typing, should_exit,    *)
(* cursor) plus the wall clock read by SystemTime.  One action is one      *)
(* iteration of App::run: draw, handle_events on one terminal event, and   *)
(* the recomputation of should_exit that closes the iteration.             *)
(*                                                                         *)
(* Indices (word_idx, cursor_idx) are 0-based as in the Rust code;         *)
(* sequences are 1-based, so slot i of a word is chars[i + 1].             *)
(***************************************************************************)
EXTENDS Integers, Sequences, FiniteSets, TLC

(***************************************************************************)
(* Bounds of the model and constants of the program.                       *)
(***************************************************************************)
\* the clock stops advancing in the model once it reads MaxNow seconds
MaxNow == 30
\* seconds that pass in one step of the clock
TickSecs == 10

EXTRA_CHAR_BOUNDARY == 5
\* is_typing_time_done: elapsed.as_secs() > 20
TYPING_SECS == 20

\* characters a KeyCode::Char event can carry (other than ' ')
Keys == {"a", "b"}
\* word lists App::new is given (every word non-empty, as main() filters)
WordLists == { <<"ab">>, <<"a", "b">> }
\* the characters of a word, as str::chars() yields them
Chars(str) ==
    CASE str = "a" -> <<"a">>
      [] str = "b" -> <<"b">>
      [] str = "ab" -> <<"a", "b">>

(***************************************************************************)
(* lib.rs: colours, StyledChar, StyledWord.  A StyledChar stores a char    *)
(* and a Style; the only part of the Style the session sets is fg.         *)
(***************************************************************************)
MISTYPE_COLOR == "Red"
UNTYPED_COLOR == "Gray"
CORRECT_COLOR == "Green"
MISTYPE_EXTRA_COLOR == "Red"

StyledChar_new(ch) == [char |-> ch, style |-> UNTYPED_COLOR]

\* Faulty variant: the extra character is built as an untyped one.
new_bad_char_untyped(ch) == [char |-> ch, style |-> UNTYPED_COLOR]

new_bad_char(ch) == [char |-> ch, style |-> MISTYPE_EXTRA_COLOR]

switch_typed_state(sc, state) ==
    LET color == CASE state = "Mistype" -> MISTYPE_COLOR
                   [] state = "Untyped" -> UNTYPED_COLOR
                   [] state = "Correct" -> CORRECT_COLOR
                   [] state = "MistypeExtra" -> MISTYPE_EXTRA_COLOR
    IN  [sc EXCEPT !.style = color]

get_char_data(sc) == sc.char

from_chars(chars) ==
    [og_len |-> Len(chars),
     chars  |-> [i \in 1..Len(chars) |-> StyledChar_new(chars[i])]]

from_string(str) == from_chars(Chars(str))

append_char(word, sc) == [word EXCEPT !.chars = Append(@, sc)]

\* Vec::get_mut(index) is Some exactly when index < len
has_ch(word, index) == index >= 0 /\ index < Len(word.chars)

\* a - b > bound for usize a, b with overflow checks off: when b > a the
\* difference wraps to 2^64 - (b - a), which exceeds every bound the program
\* compares it with (with overflow checks on the subtraction panics instead,
\* see key_press_panics)
wrapping_sub_exceeds(a, b, bound) == IF a >= b THEN a - b > bound ELSE TRUE

\* Vec::pop: drops the last element, a no-op on an empty vector
pop(chars) == IF Len(chars) = 0 THEN chars ELSE SubSeq(chars, 1, Len(chars) - 1)

VARIABLES
    source_words,  \* the word list App::new was called with
    user_typing,   \* App.user_typing: AFK or TYPED(start time)
    should_exit,   \* App.should_exit
    cursor,        \* App.cursor: [word_idx, words]
    now,           \* the wall clock, in whole seconds
    panicked       \* "no", or the function in which the process died

vars == <<source_words, user_typing, should_exit, cursor, now, panicked>>

(***************************************************************************)
(* main.rs: UserCursor.  A cursor is [word_idx, words]; a CursorWord is    *)
(* [word, cursor_idx] with word a StyledWord [chars, og_len].              *)
(***************************************************************************)
CursorWord(str) == [word |-> from_string(str), cursor_idx |-> 0]

\* Faulty variant: the game is done only once the last word is typed to its end.
is_game_done_when_typed(c) ==
    /\ c.word_idx = Len(c.words)
    /\ c.words[Len(c.words)].cursor_idx >= c.words[Len(c.words)].word.og_len

is_game_done(c) == c.word_idx = Len(c.words)

\* Faulty variant: the space is accepted only at the end of the word.
handle_space_press_at_end_only(c) ==
    IF c.words[c.word_idx + 1].cursor_idx >= c.words[c.word_idx + 1].word.og_len
    THEN [c EXCEPT !.word_idx = @ + 1]
    ELSE c

handle_space_press(c) == [c EXCEPT !.word_idx = @ + 1]

\* self.words.get(self.word_idx) is Some
has_cursor_word(c) == c.word_idx >= 0 /\ c.word_idx < Len(c.words)

get_cursor_word(c) == c.words[c.word_idx + 1]

\* style_word is called once per rendered item; it indexes the cursor word
\* and asserts the cursor is inside it or on the space after it
render_panics(c) ==
    /\ Len(c.words) > 0
    /\ \/ ~has_cursor_word(c)
       \/ get_cursor_word(c).cursor_idx > Len(get_cursor_word(c).word.chars)

\* the rendered position that carries the cursor modifier: item 2 * word_idx
\* is the cursor word, item 2 * word_idx + 1 the separator after it
cursor_items(c) ==
    LET cw == get_cursor_word(c)
        word_length == Len(cw.word.chars)
        n_items == 2 * Len(c.words) - 1
    IN  { <<idx, cw.cursor_idx>> : idx \in
             { i \in 0..(n_items - 1) :
                 i = 2 * c.word_idx /\ cw.cursor_idx < word_length } }
        \cup
        { <<idx, 0>> : idx \in
             { i \in 0..(n_items - 1) :
                 i = 2 * c.word_idx + 1 /\ cw.cursor_idx = word_length } }

\* the failing points of handle_key_press: the unwrap() on the cursor word,
\* the usize subtraction (len + 1) - og_len, which panics only in a build with
\* overflow checks (overflow_checks: debug) and wraps otherwise (the key is
\* then dropped), and the assert!
key_press_panics(c, overflow_checks) ==
    \/ ~has_cursor_word(c)
    \/ LET cw == get_cursor_word(c)
       IN  /\ ~has_ch(cw.word, cw.cursor_idx)
           /\ \/ overflow_checks /\ Len(cw.word.chars) + 1 < cw.word.og_len
              \/ /\ ~wrapping_sub_exceeds(Len(cw.word.chars) + 1, cw.word.og_len,
                                          EXTRA_CHAR_BOUNDARY)
                 /\ ~(Len(cw.word.chars) >= cw.word.og_len)

\* Faulty variant: the saturation test forgets the slot about to be added.
handle_key_press_late_bound(c, pressed_char) ==
    LET w == c.word_idx + 1
        word == c.words[w].word
        cursor_idx == c.words[w].cursor_idx
    IN  IF has_ch(word, cursor_idx)
        THEN LET ch == word.chars[cursor_idx + 1]
                 typed == IF get_char_data(ch) = pressed_char
                          THEN switch_typed_state(ch, "Correct")
                          ELSE switch_typed_state(ch, "Mistype")
             IN  [c EXCEPT !.words[w].word.chars[cursor_idx + 1] = typed,
                           !.words[w].cursor_idx = @ + 1]
        ELSE IF wrapping_sub_exceeds(Len(word.chars), word.og_len, EXTRA_CHAR_BOUNDARY)
             THEN c
             ELSE [c EXCEPT !.words[w].word = append_char(@, new_bad_char(pressed_char)),
                            !.words[w].cursor_idx = @ + 1]

\* Faulty variant: a dropped keystroke still advances the offset (the early
\* return is missing).
handle_key_press_no_return(c, pressed_char) ==
    LET w == c.word_idx + 1
        word == c.words[w].word
        cursor_idx == c.words[w].cursor_idx
    IN  IF has_ch(word, cursor_idx)
        THEN LET ch == word.chars[cursor_idx + 1]
                 typed == IF get_char_data(ch) = pressed_char
                          THEN switch_typed_state(ch, "Correct")
                          ELSE switch_typed_state(ch, "Mistype")
             IN  [c EXCEPT !.words[w].word.chars[cursor_idx + 1] = typed,
                           !.words[w].cursor_idx = @ + 1]
        ELSE IF wrapping_sub_exceeds(Len(word.chars) + 1, word.og_len, EXTRA_CHAR_BOUNDARY)
             THEN [c EXCEPT !.words[w].cursor_idx = @ + 1]
             ELSE [c EXCEPT !.words[w].word = append_char(@, new_bad_char(pressed_char)),
                            !.words[w].cursor_idx = @ + 1]

\* Faulty variant: the typed key is compared with the slot after the cursor
\* (with the last slot when there is none).
handle_key_press_next_slot(c, pressed_char) ==
    LET w == c.word_idx + 1
        word == c.words[w].word
        cursor_idx == c.words[w].cursor_idx
    IN  IF has_ch(word, cursor_idx)
        THEN LET ch == word.chars[cursor_idx + 1]
                 nxt == IF has_ch(word, cursor_idx + 1)
                        THEN word.chars[cursor_idx + 2] ELSE ch
                 typed == IF get_char_data(nxt) = pressed_char
                          THEN switch_typed_state(ch, "Correct")
                          ELSE switch_typed_state(ch, "Mistype")
             IN  [c EXCEPT !.words[w].word.chars[cursor_idx + 1] = typed,
                           !.words[w].cursor_idx = @ + 1]
        ELSE IF wrapping_sub_exceeds(Len(word.chars) + 1, word.og_len, EXTRA_CHAR_BOUNDARY)
             THEN c
             ELSE [c EXCEPT !.words[w].word = append_char(@, new_bad_char(pressed_char)),
                            !.words[w].cursor_idx = @ + 1]

\* Faulty variant: a correct key does not advance the offset.
handle_key_press_stay_on_correct(c, pressed_char) ==
    LET w == c.word_idx + 1
        word == c.words[w].word
        cursor_idx == c.words[w].cursor_idx
    IN  IF has_ch(word, cursor_idx)
        THEN LET ch == word.chars[cursor_idx + 1]
             IN  IF get_char_data(ch) = pressed_char
                 THEN [c EXCEPT !.words[w].word.chars[cursor_idx + 1] =
                                    switch_typed_state(ch, "Correct")]
                 ELSE [c EXCEPT !.words[w].word.chars[cursor_idx + 1] =
                                    switch_typed_state(ch, "Mistype"),
                                !.words[w].cursor_idx = @ + 1]
        ELSE IF wrapping_sub_exceeds(Len(word.chars) + 1, word.og_len, EXTRA_CHAR_BOUNDARY)
             THEN c
             ELSE [c EXCEPT !.words[w].word = append_char(@, new_bad_char(pressed_char)),
                            !.words[w].cursor_idx = @ + 1]

handle_key_press(c, pressed_char) ==
    LET w == c.word_idx + 1
        word == c.words[w].word
        cursor_idx == c.words[w].cursor_idx
    IN  IF has_ch(word, cursor_idx)
        THEN LET ch == word.chars[cursor_idx + 1]
                 data == get_char_data(ch)
                 typed == IF data = pressed_char
                          THEN switch_typed_state(ch, "Correct")
                          ELSE switch_typed_state(ch, "Mistype")
             IN  [c EXCEPT !.words[w].word.chars[cursor_idx + 1] = typed,
                           !.words[w].cursor_idx = @ + 1]
        ELSE IF wrapping_sub_exceeds(Len(word.chars) + 1, word.og_len, EXTRA_CHAR_BOUNDARY)
             THEN c
             ELSE [c EXCEPT !.words[w].word = append_char(@, new_bad_char(pressed_char)),
                            !.words[w].cursor_idx = @ + 1]

\* the failing points of handle_delete: the unwrap() on the cursor word and
\* the unwrap() on the slot being reverted
delete_panics(c) ==
    \/ ~has_cursor_word(c)
    \/ LET cw == get_cursor_word(c)
       IN  /\ cw.cursor_idx > 0
           /\ cw.cursor_idx - 1 < cw.word.og_len
           /\ ~has_ch(cw.word, cw.cursor_idx - 1)

\* Faulty variant: the slot under the old offset decides between removing
\* and reverting, so the last original slot is removed.
handle_delete_pops_original(c) ==
    LET w == c.word_idx + 1
        cursor_idx == c.words[w].cursor_idx
    IN  IF cursor_idx = 0 /\ c.word_idx = 0
        THEN c
        ELSE IF cursor_idx = 0
        THEN [c EXCEPT !.word_idx = @ - 1]
        ELSE LET new_idx == cursor_idx - 1
                 word == c.words[w].word
             IN  IF cursor_idx >= word.og_len
                 THEN [c EXCEPT !.words[w].cursor_idx = new_idx,
                                !.words[w].word.chars = pop(@)]
                 ELSE [c EXCEPT !.words[w].cursor_idx = new_idx,
                                !.words[w].word.chars[new_idx + 1] =
                                    switch_typed_state(@, "Untyped")]

\* Faulty variant: the first extra is reverted to Untyped instead of removed
\* (> for >=).
handle_delete_keeps_first_extra(c) ==
    LET w == c.word_idx + 1
        cursor_idx == c.words[w].cursor_idx
    IN  IF cursor_idx = 0 /\ c.word_idx = 0
        THEN c
        ELSE IF cursor_idx = 0
        THEN [c EXCEPT !.word_idx = @ - 1]
        ELSE LET new_idx == cursor_idx - 1
                 word == c.words[w].word
             IN  IF new_idx > word.og_len
                 THEN [c EXCEPT !.words[w].cursor_idx = new_idx,
                                !.words[w].word.chars = pop(@)]
                 ELSE [c EXCEPT !.words[w].cursor_idx = new_idx,
                                !.words[w].word.chars[new_idx + 1] =
                                    switch_typed_state(@, "Untyped")]

\* Faulty variant: the guard for the very first position is missing.
handle_delete_no_first_guard(c) ==
    LET w == c.word_idx + 1
        cursor_idx == c.words[w].cursor_idx
    IN  IF cursor_idx = 0
        THEN [c EXCEPT !.word_idx = @ - 1]
        ELSE LET new_idx == cursor_idx - 1
                 word == c.words[w].word
             IN  IF new_idx >= word.og_len
                 THEN [c EXCEPT !.words[w].cursor_idx = new_idx,
                                !.words[w].word.chars = pop(@)]
                 ELSE [c EXCEPT !.words[w].cursor_idx = new_idx,
                                !.words[w].word.chars[new_idx + 1] =
                                    switch_typed_state(@, "Untyped")]

\* Faulty variant: moving back to the previous word puts the cursor at the
\* start of that word.
handle_delete_rewinds_previous(c) ==
    LET w == c.word_idx + 1
        cursor_idx == c.words[w].cursor_idx
    IN  IF cursor_idx = 0 /\ c.word_idx = 0
        THEN c
        ELSE IF cursor_idx = 0
        THEN [c EXCEPT !.word_idx = @ - 1, !.words[w - 1].cursor_idx = 0]
        ELSE LET new_idx == cursor_idx - 1
                 word == c.words[w].word
             IN  IF new_idx >= word.og_len
                 THEN [c EXCEPT !.words[w].cursor_idx = new_idx,
                                !.words[w].word.chars = pop(@)]
                 ELSE [c EXCEPT !.words[w].cursor_idx = new_idx,
                                !.words[w].word.chars[new_idx + 1] =
                                    switch_typed_state(@, "Untyped")]

\* Faulty variant: the cursor moves to the previous word one position early.
handle_delete_leaves_early(c) ==
    LET w == c.word_idx + 1
        cursor_idx == c.words[w].cursor_idx
    IN  IF cursor_idx = 0 /\ c.word_idx = 0
        THEN c
        ELSE IF cursor_idx <= 1 /\ c.word_idx > 0
        THEN [c EXCEPT !.word_idx = @ - 1]
        ELSE LET new_idx == cursor_idx - 1
                 word == c.words[w].word
             IN  IF new_idx >= word.og_len
                 THEN [c EXCEPT !.words[w].cursor_idx = new_idx,
                                !.words[w].word.chars = pop(@)]
                 ELSE [c EXCEPT !.words[w].cursor_idx = new_idx,
                                !.words[w].word.chars[new_idx + 1] =
                                    switch_typed_state(@, "Untyped")]

\* Faulty variant: an original slot keeps its colour when the cursor moves
\* back over it.
handle_delete_no_revert(c) ==
    LET w == c.word_idx + 1
        cursor_idx == c.words[w].cursor_idx
    IN  IF cursor_idx = 0 /\ c.word_idx = 0
        THEN c
        ELSE IF cursor_idx = 0
        THEN [c EXCEPT !.word_idx = @ - 1]
        ELSE LET new_idx == cursor_idx - 1
                 word == c.words[w].word
             IN  IF new_idx >= word.og_len
                 THEN [c EXCEPT !.words[w].cursor_idx = new_idx,
                                !.words[w].word.chars = pop(@)]
                 ELSE [c EXCEPT !.words[w].cursor_idx = new_idx]

handle_delete(c) ==
    LET w == c.word_idx + 1
        cursor_idx == c.words[w].cursor_idx
    IN  IF cursor_idx = 0 /\ c.word_idx = 0
        THEN c
        ELSE IF cursor_idx = 0
        THEN [c EXCEPT !.word_idx = @ - 1]
        ELSE LET new_idx == cursor_idx - 1
                 word == c.words[w].word
             IN  IF new_idx >= word.og_len
                 THEN [c EXCEPT !.words[w].cursor_idx = new_idx,
                                !.words[w].word.chars = pop(@)]
                 ELSE [c EXCEPT !.words[w].cursor_idx = new_idx,
                                !.words[w].word.chars[new_idx + 1] =
                                    switch_typed_state(@, "Untyped")]

(***************************************************************************)
(* main.rs: TypingEvent and App.                                           *)
(***************************************************************************)
AFK == [tag |-> "AFK"]

TYPED(start_time) == [tag |-> "TYPED", start |-> start_time]

App_new(words) ==
    [user_typing |-> AFK,
     should_exit |-> FALSE,
     cursor      |-> [word_idx |-> 0,
                      words    |-> [i \in 1..Len(words) |-> CursorWord(words[i])]]]

\* Faulty variant: the session is timed out at the limit, not after it.
is_typing_time_done_at_limit(ut, t) ==
    IF ut.tag = "TYPED"
    THEN IF t < ut.start
         THEN [panic |-> TRUE, done |-> FALSE]
         ELSE [panic |-> FALSE, done |-> (t - ut.start) >= TYPING_SECS]
    ELSE [panic |-> FALSE, done |-> FALSE]

\* The result of is_typing_time_done with the clock reading t: done is the
\* value returned, panic says that the call panics instead of returning.
\* start_time.elapsed() is Err when the start time is later than the clock
\* (the wall clock was set back), and the Err arm panics; otherwise the
\* result is elapsed.as_secs() > 20.
is_typing_time_done(ut, t) ==
    IF ut.tag = "TYPED"
    THEN IF t < ut.start
         THEN [panic |-> TRUE, done |-> FALSE]
         ELSE [panic |-> FALSE, done |-> (t - ut.start) > TYPING_SECS]
    ELSE [panic |-> FALSE, done |-> FALSE]

\* the right-hand side of the assignment that ends every iteration of run
\* (main.rs line 249): || does not call is_typing_time_done when the game is
\* done
run_check(c, ut, t) ==
    IF is_game_done(c)
    THEN [panic |-> FALSE, exit |-> TRUE]
    ELSE [panic |-> is_typing_time_done(ut, t).panic,
          exit  |-> is_typing_time_done(ut, t).done]

\* Faulty variant: every Char event restarts the timer.
mark_typed_always(ut, t) == TYPED(t)

\* Faulty variant: the timer starts at the epoch, not at the current time.
mark_typed_epoch(ut, t) == IF ut = AFK THEN TYPED(0) ELSE ut

\* lines 265-267: the first Char event starts the timer
mark_typed(ut, t) == IF ut = AFK THEN TYPED(t) ELSE ut

Init ==
    /\ source_words \in WordLists
    /\ user_typing = App_new(source_words).user_typing
    /\ should_exit = App_new(source_words).should_exit
    /\ cursor = App_new(source_words).cursor
    /\ now = 0
    /\ panicked = "no"

\* the loop of run is at its top and the process is alive
Running == ~should_exit /\ panicked = "no"

\* the process dies in the named function before the event changes anything
Panic(site) ==
    /\ panicked' = site
    /\ UNCHANGED <<source_words, user_typing, should_exit, cursor, now>>

\* handle_events has returned, leaving cursor c, activity marker ut and
\* should_exit = exit_after_events; line 249 then assigns should_exit, or the
\* process dies in is_typing_time_done with the event already applied
EndIteration(c, ut, exit_after_events) ==
    /\ cursor' = c
    /\ user_typing' = ut
    /\ IF run_check(c, ut, now).panic
       THEN /\ panicked' = "is_typing_time_done"
            /\ should_exit' = exit_after_events
       ELSE /\ panicked' = panicked
            /\ should_exit' = run_check(c, ut, now).exit
    /\ UNCHANGED <<source_words, now>>

\* KeyCode::Char(ch), ch /= ' '
CharKey(ch) ==
    /\ Running
    /\ \E overflow_checks \in BOOLEAN :
          IF render_panics(cursor)
          THEN Panic("style_word")
          ELSE IF key_press_panics(cursor, overflow_checks)
          THEN Panic("handle_key_press")
          ELSE EndIteration(handle_key_press(cursor, ch),
                            mark_typed(user_typing, now), should_exit)

\* KeyCode::Char(' ')
SpaceKey ==
    /\ Running
    /\ IF render_panics(cursor)
       THEN Panic("style_word")
       ELSE EndIteration(handle_space_press(cursor),
                         mark_typed(user_typing, now), should_exit)

\* KeyCode::Backspace | KeyCode::Delete
DeleteKey ==
    /\ Running
    /\ IF render_panics(cursor)
       THEN Panic("style_word")
       ELSE IF delete_panics(cursor)
       THEN Panic("handle_delete")
       ELSE EndIteration(handle_delete(cursor), user_typing, should_exit)

\* KeyCode::Esc: handle_events sets should_exit = true, and the assignment
\* that ends the iteration then overwrites it
EscKey ==
    /\ Running
    /\ IF render_panics(cursor)
       THEN Panic("style_word")
       ELSE EndIteration(cursor, user_typing, TRUE)

\* any other key code, a key event that is not a press, or a non-key event
OtherEvent ==
    /\ Running
    /\ IF render_panics(cursor)
       THEN Panic("style_word")
       ELSE EndIteration(cursor, user_typing, should_exit)

\* time passes while event::read() blocks
Tick ==
    /\ Running
    /\ now + TickSecs <= MaxNow
    /\ now' = now + TickSecs
    /\ UNCHANGED <<source_words, user_typing, should_exit, cursor, panicked>>

\* the wall clock SystemTime reads is set back while event::read() blocks
ClockSetBack ==
    /\ Running
    /\ now - TickSecs >= 0
    /\ now' = now - TickSecs
    /\ UNCHANGED <<source_words, user_typing, should_exit, cursor, panicked>>

Next ==
    \/ \E ch \in Keys : CharKey(ch)
    \/ SpaceKey
    \/ DeleteKey
    \/ EscKey
    \/ OtherEvent
    \/ Tick
    \/ ClockSetBack

Spec == Init /\ [][Next]_vars

(***************************************************************************)
(* Vocabulary of the properties.                                           *)
(***************************************************************************)
\* the event of the iteration was applied by its handler (the process may
\* still have died afterwards, in the time check that ends the iteration)
EventApplied == panicked \in {"no", "is_typing_time_done"}

WordIxs == 1..Len(cursor.words)

\* the sequence position of the cursor word (word_idx is 0-based)
Cur == cursor.word_idx + 1

Extras(cw) == Len(cw.word.chars) - cw.word.og_len

Target(i) == Chars(source_words[i])

\* every word but the one at sequence position i is left as it was
OtherWordsKept(i) ==
    /\ Len(cursor'.words) = Len(cursor.words)
    /\ \A k \in WordIxs : k /= i => cursor'.words[k] = cursor.words[k]

\* every slot of word i but the one at sequence position j is left as it was
OtherSlotsKept(i, j) ==
    /\ Len(cursor'.words[i].word.chars) = Len(cursor.words[i].word.chars)
    /\ \A k \in 1..Len(cursor.words[i].word.chars) :
          k /= j => cursor'.words[i].word.chars[k] = cursor.words[i].word.chars[k]

Pristine(i) == cursor.words[i] = CursorWord(source_words[i])

\* C1: every word keeps chars.len() >= og_len, og_len stays the length of the
\* target string, and the first og_len slots keep the target's characters.
C1_OriginalSlotsKept ==
    /\ Len(cursor.words) = Len(source_words)
    /\ \A i \in WordIxs :
          LET w == cursor.words[i].word
          IN  /\ Len(w.chars) >= w.og_len
              /\ w.og_len = Len(Target(i))
              /\ \A j \in 1..w.og_len : w.chars[j].char = Target(i)[j]

\* a word typed past its end (first slot right, second wrong, extras added)
\* after the cursor came to it with a space
C1_Witness ==
    /\ source_words = <<"a", "b">>
    /\ cursor.word_idx = 1
    /\ cursor.words[2].word.chars[1].style = MISTYPE_COLOR
    /\ Extras(cursor.words[2]) = 2
    /\ cursor.words[1].word.chars[1].style = CORRECT_COLOR

\* C2: no word ever has more than EXTRA_CHAR_BOUNDARY slots beyond og_len; a
\* character key at offset >= og_len appends one slot holding the typed
\* character in the MistypeExtra colour and advances the offset while fewer
\* than EXTRA_CHAR_BOUNDARY extras exist, and otherwise leaves the word
\* (length, offset, slots) as it was.
C2_Overtyping ==
    /\ [](\A i \in WordIxs : Extras(cursor.words[i]) <= EXTRA_CHAR_BOUNDARY)
    /\ [][\A ch \in Keys :
            (/\ CharKey(ch)
             /\ EventApplied'
             /\ get_cursor_word(cursor).cursor_idx >= get_cursor_word(cursor).word.og_len)
            => LET cw == cursor.words[Cur]
                   cw2 == cursor'.words[Cur]
               IN  IF Extras(cw) < EXTRA_CHAR_BOUNDARY
                   THEN /\ cw2.word.chars =
                              Append(cw.word.chars,
                                     [char |-> ch, style |-> MISTYPE_EXTRA_COLOR])
                        /\ cw2.cursor_idx = cw.cursor_idx + 1
                        /\ cw2.word.og_len = cw.word.og_len
                   ELSE cw2 = cw]_vars

\* a word saturated with extras, the cursor after the last of them
C2_Witness ==
    /\ Running
    /\ has_cursor_word(cursor)
    /\ Extras(get_cursor_word(cursor)) = EXTRA_CHAR_BOUNDARY
    /\ get_cursor_word(cursor).cursor_idx = Len(get_cursor_word(cursor).word.chars)
    /\ get_cursor_word(cursor).word.chars[Len(get_cursor_word(cursor).word.chars)].char = "b"

\* C3: 0 <= word_idx <= words.len(), and every word's stored cursor_idx is
\* between 0 and that word's chars.len().
C3_IndicesInRange ==
    /\ 0 <= cursor.word_idx
    /\ cursor.word_idx <= Len(cursor.words)
    /\ \A i \in WordIxs :
          /\ 0 <= cursor.words[i].cursor_idx
          /\ cursor.words[i].cursor_idx <= Len(cursor.words[i].word.chars)

\* the session completed (word_idx = words.len()) with the first word
\* skipped at offset 0 and the last one typed to its saturation bound
C3_Witness ==
    /\ source_words = <<"a", "b">>
    /\ cursor.word_idx = Len(cursor.words)
    /\ cursor.words[1].cursor_idx = 0
    /\ cursor.words[2].cursor_idx = Len(cursor.words[2].word.chars)
    /\ Extras(cursor.words[2]) = EXTRA_CHAR_BOUNDARY

\* C4: a character key c at offset i < og_len sets slot i to the Correct
\* colour if c is the target character at i and to the Mistype colour
\* otherwise, advances that word's offset by one and changes no other slot,
\* no other word, not the word's length and not word_idx.
C4_KeyInsideWord ==
    [][\A ch \in Keys :
          (/\ CharKey(ch)
           /\ EventApplied'
           /\ get_cursor_word(cursor).cursor_idx < get_cursor_word(cursor).word.og_len)
          => LET i == get_cursor_word(cursor).cursor_idx
                 expected == Target(Cur)[i + 1]
             IN  /\ cursor'.words[Cur].word.chars[i + 1] =
                       [char  |-> expected,
                        style |-> IF ch = expected THEN CORRECT_COLOR
                                                   ELSE MISTYPE_COLOR]
                 /\ cursor'.words[Cur].cursor_idx = i + 1
                 /\ cursor'.words[Cur].word.og_len = cursor.words[Cur].word.og_len
                 /\ OtherSlotsKept(Cur, i + 1)
                 /\ OtherWordsKept(Cur)
                 /\ cursor'.word_idx = cursor.word_idx]_vars

\* a two-letter word with its first slot mistyped and its second slot right
C4_Witness ==
    /\ source_words = <<"ab">>
    /\ cursor.word_idx = 0
    /\ cursor.words[1].cursor_idx = 2
    /\ cursor.words[1].word.chars =
          << [char |-> "a", style |-> MISTYPE_COLOR],
             [char |-> "b", style |-> CORRECT_COLOR] >>

\* the cursor after the keys of a sequence are pressed one after the other
RECURSIVE type_keys(_, _)
type_keys(c, keys) ==
    IF keys = <<>> THEN c
    ELSE type_keys(handle_key_press(c, Head(keys)), Tail(keys))

\* C5: for every word with offset 0, typing the characters of its target
\* string in order leaves every slot within og_len in the Correct colour, the
\* length equal to og_len and the offset equal to og_len.
C5_ExactTyping ==
    \A i \in WordIxs :
       cursor.words[i].cursor_idx = 0 =>
          LET typed == type_keys([cursor EXCEPT !.word_idx = i - 1], Target(i))
              cw == typed.words[i]
          IN  /\ Len(cw.word.chars) = cw.word.og_len
              /\ cw.word.og_len = Len(Target(i))
              /\ cw.cursor_idx = cw.word.og_len
              /\ \A j \in 1..cw.word.og_len :
                    cw.word.chars[j] = [char |-> Target(i)[j], style |-> CORRECT_COLOR]
              /\ typed.word_idx = i - 1
              /\ \A k \in WordIxs : k /= i => typed.words[k] = cursor.words[k]

\* the first word typed exactly as its target, the cursor then moved to the
\* next word, which is at offset 0
C5_Witness ==
    /\ Running
    /\ source_words = <<"a", "b">>
    /\ cursor.word_idx = 1
    /\ cursor.words[1] = [word |-> [chars |-> << [char |-> "a", style |-> CORRECT_COLOR] >>,
                                    og_len |-> 1],
                          cursor_idx |-> 1]
    /\ cursor.words[2].cursor_idx = 0

\* C6: an accepted space key increments word_idx by exactly one whatever the
\* current word's offset, and changes no slot, no length and no stored offset.
C6_SpaceAdvances ==
    [][(SpaceKey /\ EventApplied')
          => /\ cursor'.word_idx = cursor.word_idx + 1
             /\ cursor'.words = cursor.words]_vars

\* the cursor is on the second word while the first was left untyped
C6_Witness ==
    /\ source_words = <<"a", "b">>
    /\ cursor.word_idx = 1
    /\ Pristine(1)
    /\ cursor.words[2].cursor_idx = 1

\* C7: Backspace/Delete at word_idx = 0 with the first word at offset 0
\* changes neither word_idx, nor any word, nor the typing-activity marker.
C7_DeleteAtStart ==
    [][(/\ DeleteKey
        /\ EventApplied'
        /\ cursor.word_idx = 0
        /\ cursor.words[1].cursor_idx = 0)
          => /\ cursor' = cursor
             /\ user_typing' = user_typing]_vars

\* the cursor is back at the very first position after typing has begun
C7_Witness ==
    /\ Running
    /\ user_typing /= AFK
    /\ cursor.word_idx = 0
    /\ cursor.words[1].cursor_idx = 0
    /\ now = TickSecs

\* C8: Backspace at offset 0 with word_idx > 0 decrements word_idx and changes
\* nothing else; a word that is not the current one is never changed by any
\* event, so the previous word is found as it was left; and a space followed
\* at once by a backspace gives back the same cursor.
C8_DeleteAcrossWords ==
    /\ [][(/\ DeleteKey
           /\ EventApplied'
           /\ cursor.word_idx > 0
           /\ get_cursor_word(cursor).cursor_idx = 0)
             => /\ cursor'.word_idx = cursor.word_idx - 1
                /\ cursor'.words = cursor.words
                /\ user_typing' = user_typing]_vars
    /\ [][(Running /\ EventApplied') => OtherWordsKept(Cur)]_vars
    /\ []((Running /\ cursor.word_idx + 1 < Len(cursor.words))
             => handle_delete(handle_space_press(cursor)) = cursor)

\* the cursor is at offset 0 of the second word and the first word was left
\* overtyped
C8_Witness ==
    /\ Running
    /\ cursor.word_idx = 1
    /\ cursor.words[2].cursor_idx = 0
    /\ Extras(cursor.words[1]) = 3
    /\ cursor.words[1].cursor_idx = 4

\* C9: Backspace at offset > 0 decrements the offset; if the new offset is
\* >= og_len the last slot, which is the one at the new offset, is removed;
\* otherwise the slot at the new offset gets the Untyped colour and the length
\* stays.  No original slot is removed and no other slot or word changes.
C9_DeleteInsideWord ==
    [][(/\ DeleteKey
        /\ EventApplied'
        /\ get_cursor_word(cursor).cursor_idx > 0)
          => LET cw == cursor.words[Cur]
                 cw2 == cursor'.words[Cur]
                 new_idx == cw.cursor_idx - 1
             IN  /\ cw2.cursor_idx = new_idx
                 /\ cw2.word.og_len = cw.word.og_len
                 /\ Len(cw2.word.chars) >= cw.word.og_len
                 /\ IF new_idx >= cw.word.og_len
                    THEN /\ Len(cw.word.chars) = new_idx + 1
                         /\ cw2.word.chars = SubSeq(cw.word.chars, 1, new_idx)
                    ELSE /\ cw2.word.chars[new_idx + 1] =
                               [char  |-> cw.word.chars[new_idx + 1].char,
                                style |-> UNTYPED_COLOR]
                         /\ OtherSlotsKept(Cur, new_idx + 1)
                 /\ OtherWordsKept(Cur)
                 /\ cursor'.word_idx = cursor.word_idx]_vars

\* a two-letter word typed and then deleted back to its first position
C9_Witness ==
    /\ source_words = <<"ab">>
    /\ user_typing /= AFK
    /\ cursor.word_idx = 0
    /\ Pristine(1)

\* C10: an escape event that is processed ends the session (the loop of run
\* reads no further event) and leaves the cursor as it was.
C10_EscapeEndsSession ==
    ~ENABLED (EscKey /\ panicked' = "no" /\ ~(should_exit' /\ cursor' = cursor))

\* the time since the start timestamp, in whole seconds (0 while idle)
Elapsed == IF user_typing = AFK THEN 0 ELSE now - user_typing.start

\* the step is an iteration of run on a character or a space key
CharOrSpaceStep == (\E ch \in Keys : CharKey(ch)) \/ SpaceKey

\* C11: the session is complete exactly when word_idx = words.len(), whatever
\* the offsets and slot colours of the words: the loop of run has stopped in
\* every state with word_idx = words.len(), the iteration in which a space
\* takes word_idx there is the last one, and a loop that stopped with
\* word_idx < words.len() stopped on the time limit.
C11_Completion ==
    /\ [](cursor.word_idx = Len(cursor.words) => should_exit)
    /\ []((should_exit /\ panicked = "no" /\ cursor.word_idx /= Len(cursor.words))
             => is_typing_time_done(user_typing, now).done)
    /\ [][(SpaceKey /\ EventApplied' /\ cursor.word_idx + 1 = Len(cursor.words))
             => should_exit']_vars
    /\ [](should_exit => ~ENABLED Next)

\* the session completed with its last word never typed
C11_Witness ==
    /\ source_words = <<"a", "b">>
    /\ should_exit
    /\ cursor.word_idx = Len(cursor.words)
    /\ Pristine(2)
    /\ cursor.words[1].word.chars[1].style = MISTYPE_COLOR

\* C12: once the time limit is exceeded or word_idx = words.len(), no event
\* changes the cursor or the activity marker.
C12_NoMutationAfterEnd ==
    [][(cursor' /= cursor \/ user_typing' /= user_typing)
          => (~is_typing_time_done(user_typing, now).done /\ ~is_game_done(cursor))]_vars

\* C13: the activity marker goes from AFK to TYPED on the first character or
\* space key, with the time of that event; backspace, delete, escape, ignored
\* events and the passing of time never change it; once TYPED it is never
\* overwritten nor reset.
C13_ActivityMarker ==
    [][/\ (user_typing = AFK /\ CharOrSpaceStep /\ EventApplied')
             => user_typing' = TYPED(now)
       /\ (DeleteKey \/ EscKey \/ OtherEvent \/ Tick \/ ClockSetBack)
             => user_typing' = user_typing
       /\ user_typing /= AFK => user_typing' = user_typing]_vars

\* typing began with a space at 10 s and the loop is still running at 30 s
C13_Witness ==
    /\ Running
    /\ user_typing = TYPED(TickSecs)
    /\ now = MaxNow
    /\ cursor.word_idx = 1
    /\ Pristine(1)
    /\ Pristine(2)

\* C14 as stated: a space or a backspace pressed while the session is idle
\* leaves it idle (the start timestamp is that of the first key that is
\* neither a space nor a backspace).
C14_SpaceLeavesIdle ==
    [][(user_typing = AFK /\ (SpaceKey \/ DeleteKey) /\ EventApplied')
          => user_typing' = AFK]_vars

\* C14 amended: a character or a space key pressed while idle makes the
\* session active with the time of that key (a space starts the timer as a
\* character does); the activity marker changes in no other iteration, so the
\* start timestamp stays that of the first character-or-space key; a
\* backspace pressed while idle leaves the session idle.
C14_StartTimestamp ==
    /\ [][(user_typing = AFK /\ CharOrSpaceStep /\ EventApplied')
             => user_typing' = TYPED(now)]_vars
    /\ [][(user_typing = AFK /\ SpaceKey /\ EventApplied')
             => user_typing' /= AFK]_vars
    /\ [][user_typing' /= user_typing
             => /\ user_typing = AFK
                /\ user_typing' = TYPED(now)
                /\ CharOrSpaceStep]_vars
    /\ [][(user_typing = AFK /\ DeleteKey) => user_typing' = AFK]_vars

\* the session is still idle at 20 s with no word touched, and the space
\* pressed now, the first character-or-space key, starts the timer at 20 s
C14_Witness ==
    /\ source_words = <<"a", "b">>
    /\ Running
    /\ user_typing = AFK
    /\ now = 2 * TickSecs
    /\ cursor.word_idx = 0
    /\ Pristine(1)
    /\ Pristine(2)
    /\ ENABLED (SpaceKey /\ EventApplied'
                   /\ user_typing' = TYPED(2 * TickSecs)
                   /\ cursor'.word_idx = 1)

\* the step is an iteration of run that came to its end (time does not pass
\* within an iteration)
IterationStep ==
    /\ (\E ch \in Keys : CharKey(ch)) \/ SpaceKey \/ DeleteKey \/ EscKey \/ OtherEvent
    /\ panicked' = "no"

\* C15: at the end of every iteration the loop of run stops exactly when
\* word_idx = words.len() or, the session being active, more than 20 seconds
\* have passed since the start timestamp; idle, it never stops on time.
C15_TimeLimit ==
    /\ [][IterationStep
             => /\ should_exit' <=>
                     \/ cursor'.word_idx = Len(cursor'.words)
                     \/ /\ user_typing' /= AFK
                        /\ now - user_typing'.start > 20
                /\ (user_typing' = AFK /\ cursor'.word_idx < Len(cursor'.words))
                      => ~should_exit']_vars
    /\ []((should_exit /\ panicked = "no" /\ cursor.word_idx < Len(cursor.words))
             => (user_typing /= AFK /\ Elapsed > 20))

\* the loop stopped on the time limit in the middle of the first word
C15_Witness ==
    /\ source_words = <<"ab">>
    /\ should_exit
    /\ cursor.word_idx = 0
    /\ cursor.words[1].cursor_idx = 1
    /\ Elapsed = 3 * TickSecs

\* C16: no failing point of the handlers is reached: in every state in
\* which the loop of run reads an event, the cursor word exists (word_idx <
\* words.len()), chars.len() >= og_len, (chars.len() + 1) - og_len does not
\* underflow, and the slot a delete reverts exists; no iteration fails.
C16_NoPanic ==
    /\ panicked \notin {"handle_key_press", "handle_delete"}
    /\ Running =>
          /\ has_cursor_word(cursor)
          /\ \A overflow_checks \in BOOLEAN : ~key_press_panics(cursor, overflow_checks)
          /\ ~delete_panics(cursor)
          /\ Len(get_cursor_word(cursor).word.chars) >= get_cursor_word(cursor).word.og_len
          /\ Len(get_cursor_word(cursor).word.chars) + 1 >= get_cursor_word(cursor).word.og_len

\* the loop is running on the last word, saturated with extras
C16_Witness ==
    /\ Running
    /\ source_words = <<"a", "b">>
    /\ cursor.word_idx = 1
    /\ Extras(cursor.words[2]) = EXTRA_CHAR_BOUNDARY
    /\ Extras(cursor.words[1]) = EXTRA_CHAR_BOUNDARY

\* C17: at every render word_idx < words.len(), the assertion of style_word
\* holds, and exactly one rendered position carries the cursor: the character
\* at cursor_idx of the cursor word, or the separator after that word when
\* cursor_idx = chars.len().
C17_OneCursorPosition ==
    Running =>
       /\ has_cursor_word(cursor)
       /\ ~render_panics(cursor)
       /\ Cardinality(cursor_items(cursor)) = 1
       /\ LET cw == get_cursor_word(cursor)
          IN  cursor_items(cursor) =
                 IF cw.cursor_idx < Len(cw.word.chars)
                 THEN {<<2 * cursor.word_idx, cw.cursor_idx>>}
                 ELSE {<<2 * cursor.word_idx + 1, 0>>}

Min(a, b) == IF a <= b THEN a ELSE b

Max(a, b) == IF a >= b THEN a ELSE b

\* C18: every word has chars.len() = max(og_len, cursor_idx); its slots below
\* min(cursor_idx, og_len) carry the Correct or the Mistype colour, its slots
\* from cursor_idx up to og_len the Untyped colour, and every slot from og_len
\* on carries the MistypeExtra colour and lies below cursor_idx.  So a
\* character key finds a slot to classify exactly when cursor_idx < og_len.
C18_WordShape ==
    \A i \in WordIxs :
       LET cw == cursor.words[i]
           chars == cw.word.chars
           og_len == cw.word.og_len
       IN  /\ Len(chars) = Max(og_len, cw.cursor_idx)
           /\ \A j \in 1..Len(chars) :
                 /\ (j <= Min(cw.cursor_idx, og_len))
                       => chars[j].style \in {CORRECT_COLOR, MISTYPE_COLOR}
                 /\ (j > cw.cursor_idx /\ j <= og_len)
                       => chars[j].style = UNTYPED_COLOR
                 /\ (j > og_len)
                       => (chars[j].style = MISTYPE_EXTRA_COLOR /\ j <= cw.cursor_idx)
           /\ has_ch(cw.word, cw.cursor_idx) <=> cw.cursor_idx < og_len

\* the first word typed right and overtyped by two, the cursor on the second
\* word, whose only slot is untyped
C18_Witness ==
    /\ source_words = <<"a", "b">>
    /\ cursor.word_idx = 1
    /\ cursor.words[1].cursor_idx = 3
    /\ cursor.words[1].word.chars[1].style = CORRECT_COLOR
    /\ Extras(cursor.words[1]) = 2
    /\ cursor.words[2].cursor_idx = 0
    /\ now = MaxNow

\* C19: every word after the cursor word is as App::new built it (offset 0,
\* length og_len, every slot Untyped), so a space enters the next word at
\* offset 0.
C19_LaterWordsPristine ==
    /\ [](\A i \in WordIxs : i > Cur => Pristine(i))
    /\ [][(SpaceKey /\ EventApplied' /\ cursor'.word_idx < Len(cursor'.words))
             => get_cursor_word(cursor').cursor_idx = 0]_vars

\* the cursor is on the first word, which is overtyped, with typing begun at
\* 10 s; the second word is pristine
C19_Witness ==
    /\ Running
    /\ source_words = <<"a", "b">>
    /\ cursor.word_idx = 0
    /\ Extras(cursor.words[1]) = 2
    /\ user_typing = TYPED(TickSecs)
    /\ Pristine(2)

\* C20: where the cursor word exists and has fewer than EXTRA_CHAR_BOUNDARY
\* extras, a character key followed at once by a backspace gives back the
\* same cursor; with EXTRA_CHAR_BOUNDARY extras it does not (the key is
\* dropped and the backspace removes an extra).
C20_KeyThenBackspace ==
    has_cursor_word(cursor) =>
       \A ch \in Keys :
          LET back == handle_delete(handle_key_press(cursor, ch))
          IN  IF Extras(get_cursor_word(cursor)) < EXTRA_CHAR_BOUNDARY
              THEN back = cursor
              ELSE /\ back /= cursor
                   /\ Extras(get_cursor_word(back)) = EXTRA_CHAR_BOUNDARY - 1
                   /\ handle_key_press(cursor, ch) = cursor

\* the cursor is inside the second word, one extra short of saturation
C20_Witness ==
    /\ Running
    /\ cursor.word_idx = 1
    /\ Extras(cursor.words[2]) = EXTRA_CHAR_BOUNDARY - 1
    /\ cursor.words[1].cursor_idx = 1

====
